---- MODULE Spec2Model ----
(***************************************************************************)
(* A model of the Gmail sent-mail export tool: the paged retrieval engine  *)
(* of src/src/gmail_service.py (get_sent_emails, get_total_messages,       *)
(* get_sent_emails_with_progress), its field normaliser (_split_email,     *)
(* date formatting), its IMAP retrieval (get_sent_emails_imap), the export *)
(* writer of src/src/export.py with the export paths of                    *)
(* src/src/file_manager.py, the account store of                           *)
(* src/src/account_manager.py with the add and export flows of             *)
(* src/src/main.py (the count probe followed by the fetch, the retrieval   *)
(* run a second time), and the window of src/src/gui.py with its worker    *)
(* threads and the tqdm class they patch.                                  *)
(*                                                                         *)
(* The remote mailbox is the environment: a sequence of sent messages in   *)
(* server order, served in pages.  Every network call may fail, and so may *)
(* every operation on the accounts file and the token files.               *)
(***************************************************************************)
EXTENDS Integers, Sequences, FiniteSets, TLC

\* ------------------------------------------------------------------ bounds
MaxMsgs == 3        \* messages in the mailbox (paging specification)
MaxPage == 2        \* page size the server serves
MaxDay == 2         \* days 0..MaxDay (window specification)
MaxWinMsgs == 3     \* messages in the mailbox (window specification)
MaxRunMsgs == 2     \* messages in the mailbox (two-run specification)
MaxLen == 3         \* characters of a To string (split specification)
MaxRows == 3        \* records handed to the export (export specification)
MaxName == 2        \* characters of a display name (recipient-list specification)
MaxExports == 3      \* exports written into the exports directory (path specification)
MaxImapMsgs == 2    \* messages the IMAP search matches (IMAP specification)
MaxAccounts == 2    \* records the accounts file holds (account specification)
MaxWorkers == 2     \* worker threads alive at a time (GUI specification)

\* ------------------------------------------------- constants of the program
MAX_RESULTS_PER_PAGE == 10000
MAX_RETRIES == 3
None == 0           \* page_token = None: no continuation token

Days == 0..MaxDay
DateKinds == {"rfc", "none", "garbage"}   \* the Date header: parsable, absent, unparsable
Modes == {"get_sent_emails", "get_sent_emails_with_progress", "get_total_messages"}
Excs == {"HttpError", "Exception"}        \* what a detail fetch or extraction raises

\* The canonical string of day d at 00:00:00, strftime("%Y-%m-%d %H:%M:%S").
CanonicalDates ==
    << "2024-01-01 00:00:00", "2024-01-02 00:00:00", "2024-01-03 00:00:00",
       "2024-01-04 00:00:00", "2024-01-05 00:00:00", "2024-01-06 00:00:00" >>

strftime(d) == CanonicalDates[d + 1]

SENTINEL == "1900-01-01 00:00:00"
NO_DATE == "No Date"

VARIABLES
    mailbox,        \* the sent messages: [day, date]; the id is the index
    order,          \* the order the server lists the ids in
    first_run,      \* the records of the retrieval before this one, if any
    total_messages, \* the count the probe before the retrieval returned (CLI flow)
    batches,        \* the batches get_sent_emails_with_progress has yielded
    pageSize,       \* ids per page the server returns
    start_date,     \* query window [start_date, end_date)
    end_date,
    mode,           \* the retrieval function that runs
    pc,             \* "list" | "messages" | "detail" | "next_page" | "returned" | "raised"
    page_token,     \* continuation token of the page to request
    retry,          \* loop variable of the listing retry loop
    results,        \* the last page listed: [messages, nextPageToken]
    idx,            \* position in results.messages
    detail_retry,   \* loop variable of the detail retry loop (with_progress)
    emails_data,    \* records returned (get_sent_emails) or yielded so far
    total,          \* get_total_messages: running count, then the value returned
    \* history of the run
    listCalls,      \* tokens of the successful listing calls, in order
    attempts,       \* listing attempts made for the current page
    exhausted,      \* a listing call failed on its last retry
    detailCalls,    \* id -> detail calls issued
    dropped,        \* [id, why]: the messages logged and skipped, in order;
                    \* why: "error" (the fetch or the extraction raised),
                    \* "no_date", "bad_date" (with_progress)
    \* _split_email
    split_pc,       \* "idle" | "ready" | "done"
    split_input,    \* the To string, a sequence of characters
    split_result,   \* [username, domain]
    \* export_to_excel
    export_pc,      \* "idle" | "ready" | "exported" | "rearranged" | "reexported"
    export_input,   \* emails_data as handed to export_to_excel
    export_ok,      \* its return value
    export_rows,    \* the data rows written to the sheet, top to bottom
    export_prev,    \* the rows of the export before this one
    export_dir,     \* whether the directory of the output file exists
    export_files,   \* the exports directory: path -> the export that wrote the file
    export_log,     \* the exports that returned True
    \* get_sent_emails_imap
    imap_pc,        \* "idle" | "select" | "search" | "fetch" | "returned" | "raised"
    imap_mailbox,   \* the messages the search matches, in server order: [day, date]
    imap_idx,       \* position in message_numbers
    imap_data,      \* emails_data of the call
    imap_failed,    \* ids whose fetch met a network failure
    \* the account store
    accounts,       \* accounts.json: the records of its "accounts" list, in order
    tokens,         \* the addresses that have a token file in TOKENS_DIR
    call,           \* the last call made: [op, email, auth_method, app_password,
                    \* ret, strategy, exc]; exc: what it raised to its caller
    \* GmailExportGUI
    account_list,   \* the addresses the list widget shows
    export_button,  \* export_button.isEnabled()
    buttons,        \* the other QPushButtons (Add Account, Remove) are enabled
    selected_accounts,
    current_account_index,
    threads,        \* the QThreads that run: [kind, email, owned, batch, pos];
                    \* owned: self.worker refers to it; batch, pos: the
                    \* selection it was started for and its place there
    summary,        \* the closing message box of the batch, "none" before it
    crashed,        \* the process was aborted
    fin,            \* the export worker that finished last: [batch, pos, success]
    batch_failed,   \* an export failed since the last Export click
    tqdm            \* the tqdm class: what its __init__, __call__, __new__ are

vars == << mailbox, order, first_run, total_messages, batches, pageSize, start_date, end_date, mode, pc, page_token, retry,
           results, idx, detail_retry, emails_data, total,
           listCalls, attempts, exhausted, detailCalls, dropped,
           split_pc, split_input, split_result,
           export_pc, export_input, export_ok, export_rows, export_prev, export_dir,
           export_files, export_log,
           imap_pc, imap_mailbox, imap_idx, imap_data, imap_failed,
           accounts, tokens, call,
           account_list, export_button, buttons, selected_accounts,
           current_account_index, threads, summary, crashed, fin, batch_failed, tqdm >>

engineVars == << mailbox, order, first_run, total_messages, batches, pageSize, start_date, end_date, mode, pc, page_token,
                 retry, results, idx, detail_retry, emails_data, total,
                 listCalls, attempts, exhausted, detailCalls, dropped >>
splitVars == << split_pc, split_input, split_result >>
exportVars == << export_pc, export_input, export_ok, export_rows, export_prev, export_dir,
                export_files, export_log >>
imapVars == << imap_pc, imap_mailbox, imap_idx, imap_data, imap_failed >>

\* The components other than the retrieval engine, the field normaliser and
\* the export writer.
storeVars == << accounts, tokens, call >>
guiVars == << account_list, export_button, buttons, selected_accounts,
             current_account_index, threads, summary, crashed, fin, batch_failed, tqdm >>
others == << imapVars, storeVars, guiVars >>

\* What no step of a retrieval changes: its inputs, and the other components.
env == << mailbox, order, first_run, total_messages, pageSize, start_date, end_date, mode, splitVars, exportVars, others >>

\* ------------------------------------------------------------ the server
Min(a, b) == IF a < b THEN a ELSE b
Range(f) == { f[i] : i \in DOMAIN f }

\* The end day taken as the last day of the window.
Query_inclusive(start, end) == [after |-> start, before |-> end + 1]

\* query = f"in:sent after:{start_str} before:{end_str}"
Query(start, end) == [after |-> start, before |-> end]

\* Gmail's after:/before: search: on or after `after`, strictly before `before`.
Matches(m, q) == q.after <= m.day /\ m.day < q.before

MatchingIds(q) ==
    LET F[i \in 0..Len(order)] ==
            IF i = 0 THEN << >>
            ELSE IF Matches(mailbox[order[i]], q) THEN Append(F[i - 1], order[i])
                 ELSE F[i - 1]
    IN F[Len(order)]

\* users().messages().list(q, pageToken, maxResults).execute(): at most
\* Min(pageSize, maxResults) ids from the token on, and a token iff more remain.
ServerList(q, token, maxResults) ==
    LET ids == MatchingIds(q)
        n == Min(pageSize, maxResults)
        last == Min(token + n, Len(ids))
    IN [messages |-> SubSeq(ids, token + 1, last),
        nextPageToken |-> IF last < Len(ids) THEN last ELSE None]

\* --------------------------------------------------- field normalisation
\* A string of the address fields is a sequence of characters.
Chars == {"a", " ", "@", ",", "<", ">", "\""}
Whitespace == {" "}

Strings(n) == UNION { [1..k -> Chars] : k \in 0..n }

Count(s, c) == Cardinality({ i \in 1..Len(s) : s[i] = c })

\* The first position >= from where s has c; Len(s) + 1 when there is none.
Find(s, c, from) ==
    LET hits == { i \in from..Len(s) : s[i] = c }
    IN IF hits = {} THEN Len(s) + 1 ELSE CHOOSE i \in hits : \A j \in hits : i <= j

\* str.strip()
Strip(s) ==
    LET keep == { i \in 1..Len(s) : s[i] \notin Whitespace }
    IN IF keep = {} THEN << >>
       ELSE SubSeq(s, CHOOSE i \in keep : \A j \in keep : i <= j,
                      CHOOSE i \in keep : \A j \in keep : j <= i)

\* re.search(r"<?([^<]*@[^>]*)>?", s): the leftmost start where the pattern
\* matches, each quantifier greedy.  From start i the group begins at j, after
\* an optional "<"; [^<]* backs off to the last "@" before the next "<";
\* [^>]* runs to the next ">" or the end.  [found, group].
EmailPatternSearch(s) ==
    LET GroupStart(i) == IF i <= Len(s) /\ s[i] = "<" THEN i + 1 ELSE i
        Ats(i) == { k \in GroupStart(i)..(Find(s, "<", GroupStart(i)) - 1) : s[k] = "@" }
        starts == { i \in 1..(Len(s) + 1) : Ats(i) # {} }
    IN IF starts = {} THEN [found |-> FALSE, group |-> << >>]
       ELSE LET i == CHOOSE x \in starts : \A y \in starts : x <= y
                k == CHOOSE x \in Ats(i) : \A y \in Ats(i) : y <= x
            IN [found |-> TRUE,
                group |-> SubSeq(s, GroupStart(i), Find(s, ">", k + 1) - 1)]

\* The fall-through return with the string trimmed.
SplitFallThrough_stripped(email) == [username |-> Strip(email), domain |-> << >>]

\* return email, ""   (line 82: the string as it stands at that point)
SplitFallThrough(email) == [username |-> email, domain |-> << >>]

\* GmailService._split_email.  No step of it raises on a string, so the
\* except branch of line 83 is not taken.
SplitEmail(to) ==
    LET first == IF Count(to, ",") > 0
                 THEN Strip(SubSeq(to, 1, Find(to, ",", 1) - 1))
                 ELSE to
        match == EmailPatternSearch(first)
        email == IF match.found THEN Strip(match.group) ELSE first
        at == Find(email, "@", 1)
    IN IF Count(email, "@") = 1
       THEN [username |-> Strip(SubSeq(email, 1, at - 1)),
             domain |-> Strip(SubSeq(email, at + 1, Len(email)))]
       ELSE SplitFallThrough(email)

\* get_sent_emails, lines 202-212: the Date header formatted on the spot;
\* an absent or unparsable header gives "No Date".
FormattedDate(m) ==
    IF m.date = "rfc" THEN strftime(m.day) ELSE NO_DATE

\* The To and Subject headers the server holds for a message.
ToHeader(id) == << "a", "@", "a" >>
SubjectHeader(id) == IF id % 2 = 1 THEN "Hello" ELSE "Re: Hello"

\* username, domain = self._split_email(to), for the To header of each message.
SplitTo == [id \in 1..(MaxMsgs + MaxWinMsgs + MaxRunMsgs) |-> SplitEmail(ToHeader(id))]

\* The email_data dict of lines 214-221 / 403-410 (id: the message it came from).
EmailData(id, date) ==
    LET to == SplitTo[id]
    IN [id |-> id, Date |-> date, Username |-> to.username, Domain |-> to.domain,
        Subject |-> SubjectHeader(id)]

\* ------------------------------------------------------------ retry policy
\* The last retry index missed by one.
RetriesExhausted_late(r) == r = MAX_RETRIES

\* if retry == MAX_RETRIES - 1: raise      (listing: lines 180, 306, 361)
RetriesExhausted(r) == r = MAX_RETRIES - 1

DetailRetriesExhausted_late(r) == r = MAX_RETRIES

\* if retry == MAX_RETRIES - 1: raise      (detail fetch, line 383)
DetailRetriesExhausted(r) == r = MAX_RETRIES - 1

\* Only the HttpError handler.
CaughtPerMessage_http(exc) == exc = "HttpError"

\* get_sent_emails: except HttpError (224) and except Exception (230) around
\* one message: both log and go on with the next message.
CaughtPerMessage(exc) == exc = "HttpError" \/ exc = "Exception"

\* get_sent_emails_with_progress: except Exception (419) around one message.
CaughtPerMessageWithProgress(exc) == exc \in {"HttpError", "Exception"}

\* The loop left after the first page.
NoMorePages_always(token) == TRUE

\* page_token = results.get("nextPageToken"); if not page_token: break
NoMorePages(token) == token = None

\* The continuation token not passed on.
RequestToken_first == None

\* pageToken=page_token in the listing request (lines 173, 299, 354)
RequestToken == page_token

\* ------------------------------------------------------------------ Init
Mailboxes(n, days, kinds) ==
    UNION { [1..k -> [day : days, date : kinds]] : k \in 0..n }

InitRun ==
    /\ pc = IF mode = "none" THEN "idle" ELSE "list"
    /\ page_token = None
    /\ retry = 0
    /\ results = [messages |-> << >>, nextPageToken |-> None]
    /\ idx = 1
    /\ detail_retry = 0
    /\ emails_data = << >>
    /\ total = 0
    /\ listCalls = << >>
    /\ attempts = 0
    /\ exhausted = FALSE
    /\ detailCalls = [i \in 1..Len(mailbox) |-> 0]
    /\ dropped = << >>
    /\ batches = << >>

SplitIdle ==
    /\ split_pc = "idle"
    /\ split_input = << >>
    /\ split_result = [username |-> << >>, domain |-> << >>]

ExportIdle ==
    /\ export_pc = "idle"
    /\ export_input = << >>
    /\ export_ok = FALSE
    /\ export_rows = << >>
    /\ export_prev = << >>
    /\ export_dir = FALSE
    /\ export_files = << >>
    /\ export_log = {}

ImapIdle ==
    /\ imap_pc = "idle"
    /\ imap_mailbox = << >>
    /\ imap_idx = 1
    /\ imap_data = << >>
    /\ imap_failed = {}

NoCall ==
    [op |-> "none", email |-> << >>, auth_method |-> "none", app_password |-> "",
     ret |-> FALSE, strategy |-> "none", exc |-> "none"]

\* _ensure_accounts_file: {"accounts": []}, and no token file.
StoreIdle ==
    /\ accounts = << >>
    /\ tokens = {}
    /\ call = NoCall

\* from tqdm import tqdm: the class as the library defines it.
TqdmClass == [init |-> "tqdm.__init__", call |-> "tqdm.__call__", new |-> "tqdm.__new__"]

NoWorker == [batch |-> << >>, pos |-> 0, success |-> TRUE]

\* The window as GmailExportGUI.__init__ leaves it.
GuiIdle ==
    /\ account_list = << >>
    /\ export_button = TRUE
    /\ buttons = TRUE
    /\ selected_accounts = << >>
    /\ current_account_index = 0
    /\ threads = << >>
    /\ summary = "none"
    /\ crashed = FALSE
    /\ fin = NoWorker
    /\ batch_failed = FALSE
    /\ tqdm = TqdmClass

OthersIdle == ImapIdle /\ StoreIdle /\ GuiIdle

\* No retrieval before this one.
NoRun == [done |-> FALSE, records |-> << >>]

\* The server lists the ids in the order of the mailbox.
MailboxOrder == [i \in 1..Len(mailbox) |-> i]

EngineIdle ==
    /\ mailbox = << >>
    /\ order = << >>
    /\ first_run = NoRun
    /\ total_messages = 0
    /\ pageSize = 1
    /\ start_date = 0
    /\ end_date = 0
    /\ mode = "none"
    /\ InitRun

\* Paging: every message of the mailbox is in the window.
Init ==
    /\ start_date = 0
    /\ end_date = 1
    /\ mailbox \in Mailboxes(MaxMsgs, {start_date}, DateKinds)
    /\ order = MailboxOrder
    /\ first_run = NoRun
    /\ total_messages = 0
    /\ pageSize \in 1..MaxPage
    /\ mode \in Modes
    /\ InitRun
    /\ SplitIdle
    /\ ExportIdle
    /\ OthersIdle

\* Window: messages on any day, every window start_date <= end_date
\* (ui.get_date_range, gui.export_emails reject end < start).
InitWindow ==
    /\ start_date \in Days
    /\ end_date \in Days
    /\ start_date <= end_date
    /\ mailbox \in Mailboxes(MaxWinMsgs, Days, {"rfc"})
    /\ order = MailboxOrder
    /\ first_run = NoRun
    /\ total_messages = 0
    /\ pageSize \in 1..MaxPage
    /\ mode \in Modes
    /\ InitRun
    /\ SplitIdle
    /\ ExportIdle
    /\ OthersIdle

\* ------------------------------------------------------- listing, shared
\* for retry in range(MAX_RETRIES): try: results = ...list(...).execute(); break
\* except: if retry == MAX_RETRIES - 1: raise; time.sleep(RETRY_DELAY)
\* then: messages = results.get("messages", []); if not messages: break
ListingAttempt ==
    /\ pc = "list"
    /\ retry \in 0..(MAX_RETRIES - 1)
    /\ attempts' = attempts + 1
    /\ \E ok \in BOOLEAN :
        IF ok
        THEN LET res == ServerList(Query(start_date, end_date), RequestToken,
                                   MAX_RESULTS_PER_PAGE)
             IN /\ results' = res
                /\ listCalls' = Append(listCalls, RequestToken)
                /\ pc' = IF res.messages = << >> THEN "returned" ELSE "messages"
                /\ idx' = 1
                /\ UNCHANGED << retry, exhausted >>
        ELSE /\ IF RetriesExhausted(retry)
                THEN pc' = "raised" /\ exhausted' = TRUE /\ retry' = retry
                ELSE retry' = retry + 1 /\ UNCHANGED << pc, exhausted >>
             /\ UNCHANGED << results, listCalls, idx >>
    /\ UNCHANGED << env, page_token, detail_retry, emails_data, total,
                    detailCalls, dropped, batches >>

\* After the last message of the page: the next page, or the end.
AfterMessage ==
    IF idx = Len(results.messages)
    THEN pc' = "next_page" /\ idx' = idx
    ELSE pc' = pc /\ idx' = idx + 1

\* page_token = results.get("nextPageToken"); if not page_token: break
NextPage ==
    /\ pc = "next_page"
    /\ page_token' = results.nextPageToken
    /\ IF NoMorePages(results.nextPageToken)
       THEN pc' = "returned" /\ UNCHANGED << retry, attempts >>
       ELSE pc' = "list" /\ retry' = 0 /\ attempts' = 0
    /\ UNCHANGED << env, results, idx, detail_retry, emails_data, total,
                    listCalls, exhausted, detailCalls, dropped, batches >>

\* ------------------------------------------------------- get_sent_emails
get_sent_emails_list ==
    /\ mode = "get_sent_emails"
    /\ ListingAttempt

\* One message of the page: the detail fetch, the extraction, the append.
get_sent_emails_message ==
    /\ mode = "get_sent_emails"
    /\ pc = "messages"
    /\ LET id == results.messages[idx] IN
       /\ detailCalls' = [detailCalls EXCEPT ![id] = @ + 1]
       /\ \E out \in {"ok"} \cup Excs :
            IF out = "ok"
            THEN /\ emails_data' =
                        Append(emails_data, EmailData(id, FormattedDate(mailbox[id])))
                 /\ AfterMessage
                 /\ UNCHANGED dropped
            ELSE IF CaughtPerMessage(out)
                 THEN /\ dropped' = Append(dropped, [id |-> id, why |-> "error"])
                      /\ AfterMessage
                      /\ UNCHANGED emails_data
                 ELSE /\ pc' = "raised"
                      /\ UNCHANGED << idx, emails_data, dropped >>
    /\ UNCHANGED << env, page_token, retry, results, detail_retry, total,
                    listCalls, attempts, exhausted, batches >>

get_sent_emails_next_page ==
    /\ mode = "get_sent_emails"
    /\ NextPage

\* ----------------------------------------- get_sent_emails_with_progress
\* A batch of the record twice.
Batch_twice(email_data) == << email_data, email_data >>

\* yield [email_data]
Batch(email_data) == << email_data >>

get_sent_emails_with_progress_list ==
    /\ mode = "get_sent_emails_with_progress"
    /\ ListingAttempt

\* One detail call of the retry loop of lines 373-385 and, once it succeeds,
\* the extraction and the yield of lines 388-413.
get_sent_emails_with_progress_message ==
    /\ mode = "get_sent_emails_with_progress"
    /\ pc = "messages"
    /\ detail_retry \in 0..(MAX_RETRIES - 1)
    /\ LET id == results.messages[idx]
           m == mailbox[id]
           Drop(why) ==
                   /\ dropped' = Append(dropped, [id |-> id, why |-> why])
                   /\ AfterMessage
                   /\ detail_retry' = 0
                   /\ UNCHANGED << emails_data, batches >>
       IN
       \E out \in {"ok"} \cup Excs :
          /\ detailCalls' = [detailCalls EXCEPT ![id] = @ + 1]
          /\ IF out \in Excs
             THEN \* the fetch raised
                  IF DetailRetriesExhausted(detail_retry)
                  THEN IF CaughtPerMessageWithProgress(out)
                       THEN Drop("error")
                       ELSE /\ pc' = "raised"
                            /\ UNCHANGED << idx, detail_retry, emails_data, dropped, batches >>
                  ELSE /\ detail_retry' = detail_retry + 1
                       /\ UNCHANGED << pc, idx, emails_data, dropped, batches >>
             ELSE IF m.date = "none"
             THEN \* if not date_str: log, continue (394-396)
                  Drop("no_date")
             ELSE IF m.date = "garbage"
             THEN \* parsedate_to_datetime raised: except Exception (415-417)
                  Drop("bad_date")
             ELSE \* yield [email_data]; the consumer's emails_data.extend(email_batch)
                  /\ batches' = Append(batches, Batch(EmailData(id, strftime(m.day))))
                  /\ emails_data' = emails_data \o Batch(EmailData(id, strftime(m.day)))
                  /\ AfterMessage
                  /\ detail_retry' = 0
                  /\ UNCHANGED dropped
    /\ UNCHANGED << env, page_token, retry, results, total,
                    listCalls, attempts, exhausted >>

get_sent_emails_with_progress_next_page ==
    /\ mode = "get_sent_emails_with_progress"
    /\ NextPage

\* ------------------------------------------------------ the CLI export flow
\* GmailExportTool.use_existing_account, lines 141-153: the count probed, then
\* the progress bar made and the generator started.
InitCli ==
    /\ start_date = 0
    /\ end_date = 1
    /\ mailbox \in Mailboxes(MaxMsgs, {start_date}, DateKinds)
    /\ order = MailboxOrder
    /\ first_run = NoRun
    /\ total_messages = 0
    /\ pageSize \in 1..MaxPage
    /\ mode = "get_total_messages"
    /\ InitRun
    /\ SplitIdle
    /\ ExportIdle
    /\ OthersIdle

\* total_messages = get_total_messages(...); if total_messages == 0: return
\* False; else the bar with total=total_messages and the first next() of
\* get_sent_emails_with_progress.  The server may serve pages of another size.
use_existing_account_fetch ==
    /\ mode = "get_total_messages"
    /\ pc = "returned"
    /\ total # 0
    /\ total_messages' = total
    /\ mode' = "get_sent_emails_with_progress"
    /\ pageSize' \in 1..MaxPage
    /\ pc' = "list"
    /\ page_token' = None
    /\ retry' = 0
    /\ results' = [messages |-> << >>, nextPageToken |-> None]
    /\ idx' = 1
    /\ detail_retry' = 0
    /\ emails_data' = << >>
    /\ total' = 0
    /\ listCalls' = << >>
    /\ attempts' = 0
    /\ exhausted' = FALSE
    /\ detailCalls' = [i \in 1..Len(mailbox) |-> 0]
    /\ dropped' = << >>
    /\ batches' = << >>
    /\ UNCHANGED << mailbox, order, first_run, start_date, end_date, splitVars,
                    exportVars, others >>

\* ------------------------------------------------- the retrieval run twice
\* One window of two days, every message in it, some of them on the same day.
InitTwice ==
    /\ start_date = 0
    /\ end_date = 2
    /\ mailbox \in Mailboxes(MaxRunMsgs, {0, 1}, {"rfc"})
    /\ order = MailboxOrder
    /\ first_run = NoRun
    /\ total_messages = 0
    /\ pageSize \in 1..MaxPage
    /\ mode \in {"get_sent_emails", "get_sent_emails_with_progress"}
    /\ InitRun
    /\ SplitIdle
    /\ ExportIdle
    /\ OthersIdle

\* The same retrieval called again for the same window once the first has
\* returned all its records: the mailbox is the same, the server may list it
\* in another order and in pages of another size.
run_again ==
    /\ pc = "returned"
    /\ ~first_run.done
    /\ dropped = << >>
    /\ first_run' = [done |-> TRUE, records |-> emails_data]
    /\ order' \in Permutations(1..Len(mailbox))
    /\ pageSize' \in 1..MaxPage
    /\ pc' = "list"
    /\ page_token' = None
    /\ retry' = 0
    /\ results' = [messages |-> << >>, nextPageToken |-> None]
    /\ idx' = 1
    /\ detail_retry' = 0
    /\ emails_data' = << >>
    /\ total' = 0
    /\ listCalls' = << >>
    /\ attempts' = 0
    /\ exhausted' = FALSE
    /\ detailCalls' = [i \in 1..Len(mailbox) |-> 0]
    /\ dropped' = << >>
    /\ batches' = << >>
    /\ UNCHANGED << mailbox, total_messages, start_date, end_date, mode, splitVars,
                    exportVars, others >>

\* ---------------------------------------------------- get_total_messages
\* One listing attempt; on success total += len(messages) and the next page
\* or return total; a raise out of the retry loop is caught by the
\* except Exception of line 322, which logs and returns 0.
get_total_messages ==
    /\ mode = "get_total_messages"
    /\ pc = "list"
    /\ retry \in 0..(MAX_RETRIES - 1)
    /\ \E ok \in BOOLEAN :
        IF ok
        THEN LET res == ServerList(Query(start_date, end_date), RequestToken,
                                   MAX_RESULTS_PER_PAGE)
             IN /\ results' = res
                /\ listCalls' = Append(listCalls, RequestToken)
                /\ total' = total + Len(res.messages)
                /\ page_token' = res.nextPageToken
                /\ IF NoMorePages(res.nextPageToken)
                   THEN /\ pc' = "returned"
                        /\ attempts' = attempts + 1
                        /\ retry' = retry
                   ELSE /\ pc' = "list"
                        /\ attempts' = 0
                        /\ retry' = 0
                /\ UNCHANGED exhausted
        ELSE /\ attempts' = attempts + 1
             /\ IF RetriesExhausted(retry)
                THEN /\ exhausted' = TRUE
                     /\ pc' = "returned"
                     /\ total' = 0
                     /\ retry' = retry
                ELSE /\ retry' = retry + 1
                     /\ UNCHANGED << pc, exhausted, total >>
             /\ UNCHANGED << results, listCalls, page_token >>
    /\ UNCHANGED << env, idx, detail_retry, emails_data, detailCalls, dropped, batches >>

\* ----------------------------------------------------------- _split_email
InitSplit ==
    /\ EngineIdle
    /\ ExportIdle
    /\ OthersIdle
    /\ split_pc = "ready"
    /\ split_input \in Strings(MaxLen)
    /\ split_result = [username |-> << >>, domain |-> << >>]

split_email ==
    /\ split_pc = "ready"
    /\ split_result' = SplitEmail(split_input)
    /\ split_pc' = "done"
    /\ UNCHANGED << engineVars, exportVars, others, split_input >>

NextSplit == split_email

SpecSplit == InitSplit /\ [][NextSplit]_vars

\* A To header of several recipients whose first is "name" <local@domain>,
\* the shape the comments of lines 64 and 69 name.
FirstLocal == << "a" >>
FirstDomain == << "a", "a" >>

Wrapped(name) ==
    << "\"" >> \o name \o << "\"", " ", "<" >> \o FirstLocal \o << "@" >>
        \o FirstDomain \o << ">" >>

RecipientList(name) == Wrapped(name) \o << ",", " ", "a", "@", "a" >>

DisplayNames == Strings(MaxName)

InitSplitList ==
    /\ EngineIdle
    /\ ExportIdle
    /\ OthersIdle
    /\ split_pc = "ready"
    /\ split_input \in { RecipientList(name) : name \in DisplayNames }
    /\ split_result = [username |-> << >>, domain |-> << >>]

SpecSplitList == InitSplitList /\ [][NextSplit]_vars

\* -------------------------------------------------------- export_to_excel
\* The day a canonical date string parses to; the sentinel is before them all.
ParsableDates == { CanonicalDates[i] : i \in DOMAIN CanonicalDates } \cup {SENTINEL}

Timestamp(date_str) ==
    IF date_str = SENTINEL THEN -1
    ELSE (CHOOSE i \in DOMAIN CanonicalDates : CanonicalDates[i] = date_str) - 1

\* Timestamp.strftime("%Y-%m-%d %H:%M:%S")
FormatTimestamp(t) == IF t = -1 THEN SENTINEL ELSE strftime(t)

\* ExportManager._clean_date
CleanDate(date_str) ==
    IF date_str = "" \/ date_str = NO_DATE THEN SENTINEL
    ELSE IF date_str \in ParsableDates THEN FormatTimestamp(Timestamp(date_str))
    ELSE SENTINEL

\* ExportManager._validate_data, one record.  "No Email" and "No Domain"
\* stand as one-token strings among the character sequences.
ValidateRecord(email) ==
    [Date |-> CleanDate(email.Date),
     Email |-> IF email.Username # << >> /\ email.Domain # << >>
               THEN email.Username \o << "@" >> \o email.Domain
               ELSE << "No Email" >>,
     Domain |-> IF email.Domain # << >> THEN email.Domain ELSE << "No Domain" >>,
     Subject |-> email.Subject]

ValidateData(data) == [i \in 1..Len(data) |-> ValidateRecord(data[i])]

\* The sort taking the rows as they come.
SortedOrders_unsorted(rows) == { [i \in 1..Len(rows) |-> i] }

\* df.sort_values("Date"): an order of the rows with the dates ascending.  The
\* default sort is not stable: rows of equal date come in an order the
\* sorting routine picks.
SortedOrders(rows) ==
    { p \in Permutations(1..Len(rows)) :
        \A i, j \in 1..Len(rows) :
            i < j => Timestamp(rows[p[i]].Date) <= Timestamp(rows[p[j]].Date) }

\* Lines 79-95 and 116-120: validate, parse the dates (errors coerced to NaT),
\* drop the NaT rows, sort by date, format the dates back: the rows the sheet
\* can get.
ExportOutcomes(data) ==
    LET cleaned == ValidateData(data)
        kept == SelectSeq(cleaned, LAMBDA r : r.Date \in ParsableDates)
    IN { [i \in 1..Len(kept) |->
            [kept[p[i]] EXCEPT !.Date = FormatTimestamp(Timestamp(kept[p[i]].Date))]]
         : p \in SortedOrders(kept) }

ExportDates == { strftime(0), strftime(1), NO_DATE }

ExportRecords ==
    [Date : ExportDates, Username : {<< "a" >>}, Domain : {<< >>, << "a" >>},
     Subject : {"Hello"}]

\* The sheet an earlier run left at the output path, if any (<< >>: no file).
PreviousSheets ==
    {<< >>} \cup ExportOutcomes(<< [Date |-> strftime(0), Username |-> << "a" >>,
                                     Domain |-> << "a" >>, Subject |-> "Hello"] >>)

\* The early return taken for every input.
NoData_never(data) == FALSE

\* "if not emails_data: return False"
NoData(data) == data = << >>

InitExport ==
    /\ EngineIdle
    /\ SplitIdle
    /\ OthersIdle
    /\ export_pc = "ready"
    /\ export_input \in UNION { [1..k -> ExportRecords] : k \in 0..MaxRows }
    /\ export_ok = FALSE
    /\ export_rows \in PreviousSheets
    /\ export_prev = << >>
    /\ export_dir \in BOOLEAN
    /\ export_rows # << >> => export_dir
    /\ export_files = << >>
    /\ export_log = {}

\* ExportManager.export_to_excel: no data, False before anything is touched;
\* else the directory made, a file already at the path removed, the sorted
\* rows written and True.
export_to_excel ==
    /\ export_pc \in {"ready", "rearranged"}
    /\ export_pc' = IF export_pc = "ready" THEN "exported" ELSE "reexported"
    /\ export_prev' = export_rows
    /\ IF NoData(export_input)
       THEN /\ export_ok' = FALSE
            /\ UNCHANGED << export_rows, export_dir >>
       ELSE /\ export_dir' = TRUE
            /\ export_rows' \in ExportOutcomes(export_input)
            /\ export_ok' = TRUE
    /\ UNCHANGED << engineVars, splitVars, others, export_input, export_files, export_log >>

\* A second retrieval of the same mailbox hands over the same records in
\* another order (the server's order is unspecified).
rearrange ==
    /\ export_pc = "exported"
    /\ \E p \in Permutations(1..Len(export_input)) :
          /\ export_input' = [i \in 1..Len(export_input) |-> export_input[p[i]]]
          /\ export_input' # export_input
    /\ export_pc' = "rearranged"
    /\ UNCHANGED << engineVars, splitVars, others, export_ok, export_rows, export_prev,
                    export_dir, export_files, export_log >>

NextExport == export_to_excel \/ rearrange

SpecExport == InitExport /\ [][NextExport]_vars

\* ------------------------------------------------- get_sent_emails_imap
\* The date of the record of message m (lines 520-528).
ImapFormattedDate(m) == IF m.date = "rfc" THEN strftime(m.day) ELSE NO_DATE

InitImap ==
    /\ EngineIdle
    /\ SplitIdle
    /\ ExportIdle
    /\ imap_pc = "select"
    /\ imap_mailbox \in Mailboxes(MaxImapMsgs, {0}, DateKinds)
    /\ imap_idx = 1
    /\ imap_data = << >>
    /\ imap_failed = {}
    /\ StoreIdle
    /\ GuiIdle

\* imap.select('"[Gmail]/Sent Mail"'): a failure reaches the outer except, which raises.
imap_select ==
    /\ imap_pc = "select"
    /\ \E ok \in BOOLEAN : imap_pc' = IF ok THEN "search" ELSE "raised"
    /\ UNCHANGED << engineVars, splitVars, exportVars, storeVars, guiVars,
                    imap_mailbox, imap_idx, imap_data, imap_failed >>

\* imap.search(None, search_criteria), then the loop over message_numbers.
imap_search ==
    /\ imap_pc = "search"
    /\ \E ok \in BOOLEAN :
          imap_pc' = IF ~ok THEN "raised"
                     ELSE IF Len(imap_mailbox) = 0 THEN "returned" ELSE "fetch"
    /\ UNCHANGED << engineVars, splitVars, exportVars, storeVars, guiVars,
                    imap_mailbox, imap_idx, imap_data, imap_failed >>

\* One pass of the message loop: imap.fetch(num, "(RFC822)") and the record.
imap_fetch ==
    /\ imap_pc = "fetch"
    /\ \E ok \in BOOLEAN :
          IF ok
          THEN /\ imap_data' = Append(imap_data,
                                  [id |-> imap_idx,
                                   Date |-> ImapFormattedDate(imap_mailbox[imap_idx])])
               /\ imap_pc' = IF imap_idx = Len(imap_mailbox) THEN "returned" ELSE "fetch"
               /\ imap_idx' = imap_idx + 1
               /\ UNCHANGED imap_failed
          ELSE /\ imap_failed' = imap_failed \cup {imap_idx}
               \* except Exception: log; continue   (lines 548-550)
               /\ imap_pc' = IF imap_idx = Len(imap_mailbox) THEN "returned" ELSE "fetch"
               /\ imap_idx' = imap_idx + 1
               /\ UNCHANGED imap_data
    /\ UNCHANGED << engineVars, splitVars, exportVars, storeVars, guiVars, imap_mailbox >>

NextImap == imap_select \/ imap_search \/ imap_fetch

SpecImap == InitImap /\ [][NextImap]_vars

\* ----------------------------------------------------- the account store
\* Addresses are strings of characters: two well-formed ones, one without a
\* top-level domain, and the empty string.
Addresses ==
    { << "a", "@", "a", ".", "a", "a" >>, << "b", "@", "a", ".", "a", "a" >>,
      << "a", "@", "a" >>, << >> }
AuthMethods == {"oauth", "imap"}
Passwords == {"", "pw"}       \* app_password: None, or a secret

LocalChars == {"a", "b", "."}   \* of [a-zA-Z0-9._%+-]
DomainChars == {"a", "b", "."}  \* of [a-zA-Z0-9.-]
Letters == {"a", "b"}           \* of [a-zA-Z]

\* re.match(r'^[a-zA-Z0-9._%+-]+@[a-zA-Z0-9.-]+\.[a-zA-Z]{2,}$', email)
ValidateEmail(email) ==
    \E i, j \in 1..Len(email) :
        /\ email[i] = "@" /\ email[j] = "."
        /\ 1 < i /\ i + 1 < j /\ j + 2 <= Len(email)
        /\ \A k \in 1..(i - 1) : email[k] \in LocalChars
        /\ \A k \in (i + 1)..(j - 1) : email[k] \in DomainChars
        /\ \A k \in (j + 1)..Len(email) : email[k] \in Letters

\* _load_accounts: the content of the file, {"accounts": []} when reading fails.
LoadAccounts(file, load_ok) == IF load_ok THEN file ELSE << >>

\* _save_accounts: the file rewritten; a failure is logged and the file is as before.
SaveAccounts(file, accounts_data, save_ok) == IF save_ok THEN accounts_data ELSE file

\* list_accounts over a loaded list.
ListAccounts(accs) == [i \in 1..Len(accs) |-> accs[i].email]

Registered(accs, email) == \E i \in 1..Len(accs) : accs[i].email = email

\* get_account_details: the first record of the address.
AccountDetails(accs, email) ==
    accs[CHOOSE i \in 1..Len(accs) :
            accs[i].email = email /\ \A j \in 1..(i - 1) : accs[j].email # email]

\* get_account_token_path returns a path: a record of the address with
\* auth_method "oauth" (file_manager.get_token_path raises on the empty address).
HasTokenPath(accs, email) ==
    /\ Registered(accs, email)
    /\ AccountDetails(accs, email).auth_method = "oauth"
    /\ email # << >>

\* A record that keeps the secret whatever the auth method.
AccountData_with_secret(email, auth_method, app_password) ==
    [email |-> email, auth_method |-> auth_method, app_password |-> app_password]

\* account_data of add_account (lines 82-91).
AccountData(email, auth_method, app_password) ==
    IF auth_method = "imap"
    THEN [email |-> email, auth_method |-> auth_method, app_password |-> app_password]
    ELSE [email |-> email, auth_method |-> auth_method]

\* GmailAccountManager.add_account on the file `file`: [accounts, ret].
AddAccount(file, email, auth_method, app_password, load_ok, save_ok) ==
    LET accounts_data == LoadAccounts(file, load_ok)
    IN IF Registered(accounts_data, email)
       THEN [accounts |-> file, ret |-> FALSE]
       ELSE IF auth_method = "imap" /\ app_password = ""
       THEN [accounts |-> file, ret |-> FALSE]
       ELSE [accounts |-> SaveAccounts(file,
                              Append(accounts_data,
                                     AccountData(email, auth_method, app_password)),
                              save_ok),
             ret |-> TRUE]

\* FileManager.cleanup_token: os.remove, a failure logged.
CleanupToken(toks, email, rm_ok) == IF rm_ok THEN toks \ {email} ELSE toks

\* GmailAccountManager.remove_account: [accounts, tokens, ret].  The empty
\* address makes get_token_path raise after the save; the except returns False.
RemoveAccount(file, toks, email, load_ok, save_ok, rm_ok) ==
    LET accounts_data == LoadAccounts(file, load_ok)
        kept == SelectSeq(accounts_data, LAMBDA acc : acc.email # email)
    IN [accounts |-> SaveAccounts(file, kept, save_ok),
        tokens |-> IF email = << >> THEN toks ELSE CleanupToken(toks, email, rm_ok),
        ret |-> email # << >>]

\* GmailService.setup_service: [tokens, exc]; exc = "none" when it returns
\* the service.  The token file is written when the credentials are obtained.
SetupService(file, toks, email, load_ok, auth_ok) ==
    IF ~HasTokenPath(LoadAccounts(file, load_ok), email)
    THEN [tokens |-> toks, exc |-> "ValueError"]
    ELSE IF auth_ok THEN [tokens |-> toks \cup {email}, exc |-> "none"]
    ELSE [tokens |-> toks, exc |-> "auth"]

\* What a file operation can do: succeed or fail; and a file system on which
\* every operation succeeds.
FileFailures == BOOLEAN
NoFileFailures == {TRUE}

\* The outcomes of a call over the outcomes io of its file operations (and,
\* for setup_service, of the authentication).
AddAccountOutcomes(file, email, auth_method, app_password, io) ==
    { AddAccount(file, email, auth_method, app_password, load_ok, save_ok) :
        load_ok \in io, save_ok \in io }

RemoveAccountOutcomes(file, toks, email, io) ==
    { RemoveAccount(file, toks, email, load_ok, save_ok, rm_ok) :
        load_ok \in io, save_ok \in io, rm_ok \in io }

SetupServiceOutcomes(file, toks, email, io) ==
    { SetupService(file, toks, email, load_ok, auth_ok) :
        load_ok \in io, auth_ok \in BOOLEAN }

InitStore ==
    /\ EngineIdle
    /\ SplitIdle
    /\ ExportIdle
    /\ ImapIdle
    /\ StoreIdle
    /\ GuiIdle

\* Calls with a non-empty address (the empty one is an input of
\* remove_account and setup_service).
add_account ==
    \E email \in Addresses \ { << >> }, auth_method \in AuthMethods, app_password \in Passwords :
        \E r \in AddAccountOutcomes(accounts, email, auth_method, app_password,
                                      FileFailures) :
            /\ Len(r.accounts) <= MaxAccounts
            /\ accounts' = r.accounts
            /\ call' = [op |-> "add_account", email |-> email,
                        auth_method |-> auth_method, app_password |-> app_password,
                        ret |-> r.ret, strategy |-> "none", exc |-> "none"]
            /\ UNCHANGED << engineVars, splitVars, exportVars, imapVars, guiVars, tokens >>

remove_account ==
    \E email \in Addresses :
        \E r \in RemoveAccountOutcomes(accounts, tokens, email, FileFailures) :
            /\ accounts' = r.accounts
            /\ tokens' = r.tokens
            /\ call' = [op |-> "remove_account", email |-> email,
                        auth_method |-> "none", app_password |-> "",
                        ret |-> r.ret, strategy |-> "none", exc |-> "none"]
            /\ UNCHANGED << engineVars, splitVars, exportVars, imapVars, guiVars >>

\* The add flow of GmailExportTool.add_account and of AddAccountWorker.run:
\* add_account(email), setup_service(email), and remove_account(email) when
\* that raises.  [accounts, tokens, ret, exc]
AddFlowOutcomes(file, toks, email, io) ==
    UNION { IF ~a.ret
            THEN { [accounts |-> file, tokens |-> toks, ret |-> FALSE, exc |-> "none"] }
            ELSE UNION { IF s.exc = "none"
                         THEN { [accounts |-> a.accounts, tokens |-> s.tokens,
                                 ret |-> TRUE, exc |-> "none"] }
                         ELSE { [accounts |-> r.accounts, tokens |-> r.tokens,
                                 ret |-> FALSE, exc |-> s.exc] :
                                r \in RemoveAccountOutcomes(a.accounts, s.tokens, email, io) } :
                         s \in SetupServiceOutcomes(a.accounts, toks, email, io) } :
            a \in AddAccountOutcomes(file, email, "oauth", "", io) }

AddFlow(op, email) ==
    \E r \in AddFlowOutcomes(accounts, tokens, email, FileFailures) :
        /\ Len(r.accounts) <= MaxAccounts
        /\ accounts' = r.accounts
        /\ tokens' = r.tokens
        /\ call' = [op |-> op, email |-> email,
                    auth_method |-> "none", app_password |-> "",
                    ret |-> r.ret, strategy |-> "none", exc |-> r.exc]
        /\ UNCHANGED << engineVars, splitVars, exportVars, imapVars, guiVars >>

\* GmailExportTool.add_account: EnhancedCLI.get_email_input returns only
\* addresses its _validate_email accepts.
cli_add_account ==
    \E email \in { e \in Addresses : ValidateEmail(e) } : AddFlow("cli_add_account", email)

\* AddAccountWorker.run: gui.add_account passes any non-empty stripped text.
AddAccountWorker_run ==
    \E email \in Addresses \ { << >> } : AddFlow("AddAccountWorker_run", email)

\* GmailExportTool.use_existing_account: an account of list_accounts(),
\* setup_service, then the paged retrieval and the export.
use_existing_account ==
    \E load_ok, export_done \in BOOLEAN :
        \E email \in Range(ListAccounts(LoadAccounts(accounts, load_ok))) :
            \E s \in SetupServiceOutcomes(accounts, tokens, email, FileFailures) :
                /\ tokens' = s.tokens
                /\ call' = [op |-> "use_existing_account", email |-> email,
                            auth_method |-> "none", app_password |-> "",
                            ret |-> s.exc = "none" /\ export_done,
                            strategy |-> "api", exc |-> s.exc]
                /\ UNCHANGED << engineVars, splitVars, exportVars, imapVars, guiVars, accounts >>

\* GmailService.setup_service called for any address.
setup_service ==
    \E email \in Addresses :
        \E s \in SetupServiceOutcomes(accounts, tokens, email, FileFailures) :
            /\ tokens' = s.tokens
            /\ call' = [op |-> "setup_service", email |-> email,
                        auth_method |-> "none", app_password |-> "",
                        ret |-> s.exc = "none", strategy |-> "none", exc |-> s.exc]
            /\ UNCHANGED << engineVars, splitVars, exportVars, imapVars, guiVars, accounts >>

NextStore ==
    \/ setup_service
    \/ add_account
    \/ remove_account
    \/ cli_add_account
    \/ AddAccountWorker_run
    \/ use_existing_account

SpecStore == InitStore /\ [][NextStore]_vars

\* ------------------------------------------------------- GmailExportGUI
SUCCESS_MESSAGE == "All exports completed successfully!"

\* The addresses typed into the window's input: the well-formed ones (what
\* add_account does with the others is in SpecStore).
TypedAddresses == { a \in Addresses : ValidateEmail(a) }

\* The stores a window can open on: "oauth" records of distinct well-formed
\* addresses, each with the token file its add flow wrote.
OAuthStores ==
    { accs \in UNION { [1..k -> { AccountData(e, "oauth", "") : e \in TypedAddresses }] :
                       k \in 0..MaxAccounts } :
        \A i, j \in 1..Len(accs) : accs[i].email = accs[j].email => i = j }

\* get_selected_accounts: the checked items, in list order.
SubList(list, S) ==
    LET F[i \in 0..Len(list)] ==
            IF i = 0 THEN << >>
            ELSE IF i \in S THEN Append(F[i - 1], list[i]) ELSE F[i - 1]
    IN F[Len(list)]

Selections(list) == { SubList(list, S) : S \in (SUBSET (1..Len(list))) \ {{}} }

\* self.worker = Worker(...); self.worker.start(): the window's one reference
\* goes to the new thread.
StartWorker(ts, w) ==
    Append([i \in 1..Len(ts) |-> [ts[i] EXCEPT !.owned = FALSE]], w)

RemoveAt(ts, i) == SubSeq(ts, 1, i - 1) \o SubSeq(ts, i + 1, Len(ts))

\* refresh_account_list: the widget refilled from list_accounts().
RefreshedLists(file, io) == { ListAccounts(LoadAccounts(file, load_ok)) : load_ok \in io }

\* start_next_export over the threads ts: [threads, export_button, summary].
StartNextExport(ts, selected, index, button, shown) ==
    IF index >= Len(selected)
    THEN [threads |-> ts, export_button |-> TRUE, summary |-> SUCCESS_MESSAGE]
    ELSE [threads |-> StartWorker(ts, [kind |-> "export", email |-> selected[index + 1],
                                       owned |-> TRUE, batch |-> selected,
                                       pos |-> index + 1]),
          export_button |-> button, summary |-> shown]

\* remove_account for each selected address in turn: the [accounts, tokens] left.
RECURSIVE RemoveAll(_, _, _, _)
RemoveAll(file, toks, emails, io) ==
    IF emails = << >> THEN { [accounts |-> file, tokens |-> toks] }
    ELSE UNION { RemoveAll(r.accounts, r.tokens, Tail(emails), io) :
                 r \in RemoveAccountOutcomes(file, toks, Head(emails), io) }

\* Lines 89-115 of EmailExportWorker.run on the class cls: the three
\* attributes replaced, the fetch (returning or raising), and the finally
\* block.  original_tqdm = tqdm binds a second name to the class object, no
\* copy: what the finally block reads through it is what the class holds then.
PatchedTqdm(cls) ==
    LET patched == [cls EXCEPT !.init = "custom_tqdm", !.call = "custom_tqdm",
                               !.new = "lambda"]
        original_tqdm == patched
    IN [patched EXCEPT !.init = original_tqdm.init, !.call = original_tqdm.call,
                       !.new = original_tqdm.new]

\* The window runs on a file system whose operations succeed; the failures
\* of the store's file operations are those of SpecStore.
InitGui ==
    /\ EngineIdle
    /\ SplitIdle
    /\ ExportIdle
    /\ ImapIdle
    /\ accounts \in OAuthStores
    /\ tokens = Range(ListAccounts(accounts))
    /\ call = NoCall
    /\ account_list = ListAccounts(accounts)
    /\ export_button = TRUE
    /\ buttons = TRUE
    /\ selected_accounts = << >>
    /\ current_account_index = 0
    /\ threads = << >>
    /\ summary = "none"
    /\ crashed = FALSE
    /\ fin = NoWorker
    /\ batch_failed = FALSE
    /\ tqdm = TqdmClass

\* GmailExportGUI.add_account: the Add Account click.
GmailExportGUI_add_account ==
    /\ ~crashed /\ buttons
    /\ Len(threads) < MaxWorkers
    /\ \E email \in TypedAddresses :
          threads' = StartWorker(threads, [kind |-> "add", email |-> email, owned |-> TRUE,
                                          batch |-> << >>, pos |-> 0])
    /\ export_button' = FALSE
    /\ buttons' = FALSE
    /\ UNCHANGED << engineVars, splitVars, exportVars, imapVars, storeVars,
                    account_list, selected_accounts, current_account_index,
                    summary, crashed, fin, batch_failed, tqdm >>

\* AddAccountWorker.run to its finished signal, and on_add_account_finished.
on_add_account_finished ==
    /\ ~crashed
    /\ \E i \in 1..Len(threads) :
          /\ threads[i].kind = "add"
          /\ \E r \in AddFlowOutcomes(accounts, tokens, threads[i].email, NoFileFailures) :
                /\ Len(r.accounts) <= MaxAccounts
                /\ accounts' = r.accounts
                /\ tokens' = r.tokens
                /\ account_list' \in IF r.ret THEN RefreshedLists(r.accounts, NoFileFailures)
                                      ELSE {account_list}
          /\ threads' = RemoveAt(threads, i)
    /\ export_button' = TRUE
    /\ buttons' = TRUE
    /\ UNCHANGED << engineVars, splitVars, exportVars, imapVars, call,
                    selected_accounts, current_account_index,
                    summary, crashed, fin, batch_failed, tqdm >>

\* GmailExportGUI.export_emails: the Export click, to the start of the first worker.
export_emails ==
    /\ ~crashed /\ export_button
    /\ Len(threads) < MaxWorkers
    /\ \E selected \in Selections(account_list) :
          LET n == StartNextExport(threads, selected, 0, FALSE, "none")
          IN /\ selected_accounts' = selected
             /\ threads' = n.threads
             /\ export_button' = n.export_button
             /\ summary' = n.summary
    /\ current_account_index' = 0
    /\ batch_failed' = FALSE
    /\ UNCHANGED << engineVars, splitVars, exportVars, imapVars, storeVars,
                    account_list, buttons, crashed, fin, tqdm >>

\* EmailExportWorker.run to its finished signal, and on_single_export_finished
\* with the start_next_export it ends with.  Line 802 indexes
\* selected_accounts: past its end the slot raises, which ends the process.
on_single_export_finished ==
    /\ ~crashed
    /\ \E i \in 1..Len(threads) :
          /\ threads[i].kind = "export"
          /\ \E s \in SetupServiceOutcomes(accounts, tokens, threads[i].email, NoFileFailures),
                export_done \in BOOLEAN :
                LET success == s.exc = "none" /\ export_done
                IN /\ tokens' = s.tokens
                   /\ fin' = [batch |-> threads[i].batch, pos |-> threads[i].pos,
                              success |-> success]
                   /\ batch_failed' = (batch_failed \/ ~success)
                   /\ tqdm' = IF s.exc = "none" THEN PatchedTqdm(tqdm) ELSE tqdm
          /\ IF current_account_index >= Len(selected_accounts)
             THEN /\ crashed' = TRUE
                  /\ threads' = RemoveAt(threads, i)
                  /\ UNCHANGED << current_account_index, export_button, summary >>
             ELSE LET n == StartNextExport(RemoveAt(threads, i), selected_accounts,
                                           current_account_index + 1,
                                           export_button, summary)
                  IN /\ current_account_index' = current_account_index + 1
                     /\ threads' = n.threads
                     /\ export_button' = n.export_button
                     /\ summary' = n.summary
                     /\ UNCHANGED crashed
    /\ UNCHANGED << engineVars, splitVars, exportVars, imapVars, accounts, call,
                    account_list, buttons, selected_accounts >>

\* GmailExportGUI.remove_account: the Remove click, confirmed.
GmailExportGUI_remove_account ==
    /\ ~crashed /\ buttons
    /\ \E selected \in Selections(account_list) :
          \E r \in RemoveAll(accounts, tokens, selected, NoFileFailures) :
              /\ accounts' = r.accounts
              /\ tokens' = r.tokens
              /\ account_list' \in RefreshedLists(r.accounts, NoFileFailures)
    /\ UNCHANGED << engineVars, splitVars, exportVars, imapVars, call,
                    export_button, buttons, selected_accounts, current_account_index,
                    threads, summary, crashed, fin, batch_failed, tqdm >>

\* A QThread the window no longer refers to is destroyed when its run()
\* returns, while the thread still counts as running: Qt aborts the process.
QThread_destroyed ==
    /\ ~crashed
    /\ \E i \in 1..Len(threads) :
          /\ ~threads[i].owned
          /\ threads' = RemoveAt(threads, i)
    /\ crashed' = TRUE
    /\ UNCHANGED << engineVars, splitVars, exportVars, imapVars, storeVars,
                    account_list, export_button, buttons, selected_accounts,
                    current_account_index, summary, fin, batch_failed, tqdm >>

NextGui ==
    \/ GmailExportGUI_add_account
    \/ on_add_account_finished
    \/ export_emails
    \/ on_single_export_finished
    \/ GmailExportGUI_remove_account
    \/ QThread_destroyed

SpecGui == InitGui /\ [][NextGui]_vars

\* ---------------------------------------------------------- export paths
\* start_date.strftime("%Y%m%d") of day d.
Ymd == << "20240101", "20240102", "20240103", "20240104", "20240105", "20240106" >>

\* email.replace("@", "_at_")
ReplaceAt(email) == [i \in 1..Len(email) |-> IF email[i] = "@" THEN "_at_" ELSE email[i]]

\* FileManager.get_export_path(email, start_date), for a non-empty email.
GetExportPath(email, start) ==
    << "exports/", "sent_emails_" >> \o ReplaceAt(email) \o << "_", Ymd[start + 1], ".xlsx" >>

\* The exports a user asks for: an account of the store (any non-empty
\* address) and a window of days [start, end).
ExportRequests ==
    { r \in [email : Addresses \ { << >> }, start : Days, end : Days] : r.start < r.end }

InitPaths ==
    /\ EngineIdle
    /\ SplitIdle
    /\ OthersIdle
    /\ ExportIdle

\* One export of a window with records in it (main.py 141-170, gui.py 100-131):
\* the path from get_export_path(email, start_date), a file already there
\* removed, the workbook saved.
export_window ==
    /\ export_pc = "idle"
    /\ Cardinality(export_log) < MaxExports
    /\ \E r \in ExportRequests \ export_log :
          LET output_file == GetExportPath(r.email, r.start)
          IN /\ export_files' =
                    [f \in DOMAIN export_files \cup {output_file} |->
                        IF f = output_file THEN r ELSE export_files[f]]
             /\ export_log' = export_log \cup {r}
    /\ export_dir' = TRUE
    /\ UNCHANGED << engineVars, splitVars, others, export_pc, export_input, export_ok,
                    export_rows, export_prev >>

NextPaths == export_window

SpecPaths == InitPaths /\ [][NextPaths]_vars

Next ==
    \/ get_sent_emails_list
    \/ get_sent_emails_message
    \/ get_sent_emails_next_page
    \/ get_sent_emails_with_progress_list
    \/ get_sent_emails_with_progress_message
    \/ get_sent_emails_with_progress_next_page
    \/ get_total_messages

Spec == Init /\ [][Next]_vars

\* The retrieval is straight-line code of one thread: every call returns or
\* raises and every sleep ends, so a step that can be taken is taken.
SpecTerminates == Init /\ [][Next]_vars /\ WF_vars(Next)

NextCli ==
    \/ get_total_messages
    \/ use_existing_account_fetch
    \/ get_sent_emails_with_progress_list
    \/ get_sent_emails_with_progress_message
    \/ get_sent_emails_with_progress_next_page

SpecCli == InitCli /\ [][NextCli]_vars

NextTwice ==
    \/ get_sent_emails_list
    \/ get_sent_emails_message
    \/ get_sent_emails_next_page
    \/ get_sent_emails_with_progress_list
    \/ get_sent_emails_with_progress_message
    \/ get_sent_emails_with_progress_next_page
    \/ run_again

SpecTwice == InitTwice /\ [][NextTwice]_vars

SpecWindow == InitWindow /\ [][Next]_vars

\* =================================================================== claims
TheQuery == Query(start_date, end_date)
N == Len(MatchingIds(TheQuery))
Ceil(n, p) == (n + p - 1) \div p
RecIds == [i \in 1..Len(emails_data) |-> emails_data[i].id]
DroppedIds == { dropped[i].id : i \in 1..Len(dropped) }
Retrieval == mode \in {"get_sent_emails", "get_sent_emails_with_progress"}
StrictlyIncreasing(f) == \A i, j \in DOMAIN f : i < j => f[i] < f[j]

\* C1 (as stated): a retrieval of a mailbox with N matching messages served in
\* pages of P returns N records minus the messages dropped, whatever P is, and
\* has made exactly ceil(N/P) successful listing calls.
C1_Original ==
    (Retrieval /\ pc = "returned") =>
        /\ Len(emails_data) = N - Len(dropped)
        /\ Len(listCalls) = Ceil(N, pageSize)

\* C1 (amended): as above, but an empty result set still costs one listing
\* call: ceil(N/P) successful listing calls for N >= 1, and one for N = 0.
C1_Pagination ==
    (Retrieval /\ pc = "returned") =>
        /\ Len(emails_data) = N - Len(dropped)
        /\ Len(listCalls) = IF N = 0 THEN 1 ELSE Ceil(N, pageSize)

C1_Witness ==
    /\ Retrieval /\ pc = "returned"
    /\ N = 3 /\ pageSize = 2
    /\ Len(listCalls) = 2
    /\ Len(dropped) = 1 /\ Len(emails_data) = 2

\* C2: listing failures that are retried with success (up to two per page)
\* change nothing in the result: the run does not stop before the third
\* failure, every page is requested with the token the previous page gave,
\* starting from none, and a run that returns has handled every matching
\* message exactly once, in server order: no page skipped, no record twice.
C2_RetryKeepsResults ==
    /\ (Retrieval /\ pc = "raised") => attempts = MAX_RETRIES
    /\ Retrieval =>
        \A k \in 1..Len(listCalls) :
            listCalls[k] = IF k = 1 THEN None
                           ELSE ServerList(TheQuery, listCalls[k - 1],
                                           MAX_RESULTS_PER_PAGE).nextPageToken
    /\ Retrieval => StrictlyIncreasing(RecIds)
    /\ (Retrieval /\ pc = "returned") =>
        /\ Range(RecIds) \cup DroppedIds = Range(MatchingIds(TheQuery))
        /\ Range(RecIds) \cap DroppedIds = {}
        /\ Len(dropped) = Cardinality(DroppedIds)

C2_Witness ==
    /\ Retrieval /\ pc = "returned"
    /\ retry = 2
    /\ Len(listCalls) >= 2
    /\ Len(emails_data) = 3

\* C3: the listing call of a page is attempted at most MAX_RETRIES = 3 times;
\* the third failure raises out of the retrieval and nothing else does so
\* at the listing; there is no fourth attempt.
C3_RetryBound ==
    Retrieval =>
        /\ attempts <= MAX_RETRIES
        /\ pc = "list" => (retry < MAX_RETRIES /\ attempts = retry)
        /\ exhausted => (pc = "raised" /\ attempts = MAX_RETRIES)

C3_Witness ==
    /\ Retrieval /\ pc = "raised" /\ exhausted
    /\ attempts = 3
    /\ Len(listCalls) >= 1

\* C4 (as stated): in both retrieval paths the detail call of a message id is
\* issued exactly once: never a second time, and once for every message of a
\* run that returned.
C4_Original ==
    Retrieval =>
        /\ \A id \in DOMAIN detailCalls : detailCalls[id] <= 1
        /\ pc = "returned" =>
             \A id \in Range(MatchingIds(TheQuery)) : detailCalls[id] = 1

\* C4 (amended): get_sent_emails issues the detail call of a message id
\* exactly once and drops the message when it fails; in
\* get_sent_emails_with_progress the detail call is retried, up to
\* MAX_RETRIES = 3 calls per message id, and the message is dropped when the
\* last of them fails.  A dropped message is not in the result set.
C4_DetailCalls ==
    /\ mode = "get_sent_emails" =>
        /\ \A id \in DOMAIN detailCalls : detailCalls[id] <= 1
        /\ pc = "returned" =>
             \A id \in Range(MatchingIds(TheQuery)) : detailCalls[id] = 1
    /\ mode = "get_sent_emails_with_progress" =>
        /\ \A id \in DOMAIN detailCalls : detailCalls[id] <= MAX_RETRIES
        /\ pc = "messages" =>
             /\ detail_retry < MAX_RETRIES
             /\ detailCalls[results.messages[idx]] = detail_retry
        /\ \A i \in 1..Len(dropped) :
             dropped[i].why = "error" => detailCalls[dropped[i].id] = MAX_RETRIES
        /\ pc = "returned" =>
             \A id \in Range(MatchingIds(TheQuery)) : detailCalls[id] >= 1
    /\ Retrieval => Range(RecIds) \cap DroppedIds = {}

C4_Witness ==
    /\ mode = "get_sent_emails_with_progress" /\ pc = "returned"
    /\ \E i \in 1..Len(dropped) :
         dropped[i].why = "error" /\ detailCalls[dropped[i].id] = 3
    /\ \E i \in 1..Len(emails_data) : detailCalls[emails_data[i].id] = 2

\* C5: a failure on one message never ends the retrieval: only an exhausted
\* listing raises, and a run that returns has tried every matching message,
\* those after a failed one included, up to the page without a token.
C5_MessageFailureIsLocal ==
    Retrieval =>
        /\ pc = "raised" => exhausted
        /\ pc = "returned" =>
             /\ \A id \in Range(MatchingIds(TheQuery)) : detailCalls[id] >= 1
             /\ ServerList(TheQuery, listCalls[Len(listCalls)],
                           MAX_RESULTS_PER_PAGE).nextPageToken = None

C5_Witness ==
    /\ Retrieval /\ pc = "returned"
    /\ Len(dropped) >= 1 /\ dropped[1].id = 1 /\ dropped[1].why = "error"
    /\ Len(listCalls) >= 2
    /\ Len(emails_data) >= 1

\* C6 (as stated): the count probe retries the listing call up to 3 times and
\* an exhausted listing is raised to the caller, not returned as a count.
C6_CountProbePropagates ==
    mode = "get_total_messages" =>
        /\ attempts <= MAX_RETRIES
        /\ exhausted => pc = "raised"

\* C9 (as stated): a message whose Date header is absent or unparsable, once
\* fetched, gives a record whose sent_at is the sentinel; it is not dropped.
C9_SentinelInEngine ==
    Retrieval =>
        /\ \A i \in 1..Len(emails_data) :
             mailbox[emails_data[i].id].date # "rfc" => emails_data[i].Date = SENTINEL
        /\ \A i \in 1..Len(dropped) : dropped[i].why \notin {"no_date", "bad_date"}

\* C7: only messages sent in [start_date, end_date) give a record: a message
\* of day end_date (sent at end 00:00:00) or later, or before start_date,
\* never does.
C7_HalfOpenWindow ==
    Retrieval =>
        \A i \in 1..Len(emails_data) :
            LET m == mailbox[emails_data[i].id] IN
            /\ start_date <= m.day
            /\ m.day < end_date
            /\ emails_data[i].Date = strftime(m.day)

C7_Witness ==
    /\ Retrieval /\ pc = "returned"
    /\ Len(mailbox) = 3
    /\ mailbox[1].day = end_date
    /\ mailbox[2].day = start_date
    /\ mailbox[3].day = start_date + 1
    /\ end_date = start_date + 2
    /\ Len(dropped) = 0
    /\ RecIds = << 2, 3 >>

\* C10 (as stated): for a To string without "@", _split_email returns an empty
\* domain and, as local part, the original string trimmed of surrounding
\* whitespace, also when the string has commas.
C10_NoAtGivesTrimmedOriginal ==
    (split_pc = "done" /\ Count(split_input, "@") = 0) =>
        /\ split_result.domain = << >>
        /\ split_result.username = Strip(split_input)

RowsAscending(rows) ==
    \A i, j \in 1..Len(rows) :
        i < j => Timestamp(rows[i].Date) <= Timestamp(rows[j].Date)

\* The rows as a bag: which rows, and how many of each.
BagOf(rows) ==
    [r \in Range(rows) |-> Cardinality({ i \in 1..Len(rows) : rows[i] = r })]

C11_FirstOfSeveral ==
    (split_pc = "done" /\ \E name \in DisplayNames : split_input = RecipientList(name)) =>
        split_result = [username |-> FirstLocal, domain |-> FirstDomain]

\* str.split(c): the pieces of s between the occurrences of c.
RECURSIVE Pieces(_, _)
Pieces(s, c) ==
    IF Count(s, c) = 0 THEN << s >>
    ELSE << SubSeq(s, 1, Find(s, c, 1) - 1) >>
             \o Pieces(SubSeq(s, Find(s, c, 1) + 1, Len(s)), c)

\* The first comma-separated address, and a string without its angle-bracket
\* wrapper.
FirstRecipient(to) == IF Len(Pieces(to, ",")) > 1 THEN Strip(Pieces(to, ",")[1]) ELSE to
Unwrapped(s) == LET m == EmailPatternSearch(s) IN IF m.found THEN Strip(m.group) ELSE s

C14_ImapFailureIsFatal ==
    imap_pc = "returned" => imap_failed = {}

\* C13 (as stated): the retrieval strategy follows the auth method of the
\* account: an export of a registered "imap" account retrieves over an IMAP
\* session opened with the stored secret, an export of an "oauth" account
\* retrieves over the paged listing API, and an account of either method is
\* not turned away as unregistered.
C13_StrategyByAuthMethod ==
    (call.op = "use_existing_account" /\ Registered(accounts, call.email)) =>
        LET auth_method == AccountDetails(accounts, call.email).auth_method
        IN /\ auth_method = "imap" => (call.strategy = "imap" /\ call.exc # "ValueError")
           /\ auth_method = "oauth" => call.strategy = "api"

\* C18 (as stated): once remove_account(address) has returned True the
\* address is in no list_accounts() result and has no token file.
C18_RemovedIsGone ==
    (call.op = "remove_account" /\ call.ret) =>
        /\ call.email \notin Range(ListAccounts(accounts))
        /\ call.email \notin tokens

AtMostOneRecord ==
    \A i, j \in 1..Len(accounts) : accounts[i].email = accounts[j].email => i = j

\* C19 (as stated): add_account of an address the store holds returns False
\* and leaves the store as it was, and the store never holds two records of
\* one address.
C19_UniqueKey ==
    /\ [][(call'.op = "add_account" /\ Registered(accounts, call'.email)) =>
              (~call'.ret /\ accounts' = accounts)]_vars
    /\ []AtMostOneRecord

AddOps == {"add_account", "cli_add_account", "AddAccountWorker_run"}

\* C20 (as stated): on every path to it, add_account of a malformed address
\* returns False and the store is unchanged, so that the store holds
\* well-formed addresses only.
C20_MalformedRejected ==
    /\ (call.op \in AddOps /\ ~ValidateEmail(call.email)) => ~call.ret
    /\ \A i \in 1..Len(accounts) : ValidateEmail(accounts[i].email)

ExportWorkers == { i \in 1..Len(threads) : threads[i].kind = "export" }

\* C15 (as stated): in a batch, an export that ends in failure does not stop
\* the batch: the account selected next after it is the one processed next.
C15_FailureDoesNotStopBatch ==
    (fin # NoWorker /\ ~fin.success /\ fin.pos < Len(fin.batch)) =>
        \E i \in ExportWorkers :
            /\ threads[i].batch = fin.batch
            /\ threads[i].pos = fin.pos + 1
            /\ threads[i].email = fin.batch[fin.pos + 1]

\* C16 (as stated): the closing message of a batch reports the outcomes: it
\* says the exports completed successfully only if every export of the batch
\* succeeded.
C16_SummaryReportsOutcomes ==
    summary = SUCCESS_MESSAGE => ~batch_failed

\* C17 (as stated): under every interleaving of clicks and finished signals,
\* at most one export worker runs at a time and no batch can be started while
\* one runs.
C17_OneWorkerAtATime ==
    /\ Cardinality(ExportWorkers) <= 1
    /\ (export_button /\ ~crashed) => ExportWorkers = {}

HasSecret(acc) == "app_password" \in DOMAIN acc

\* C21: in every store state a record has an app_password exactly when its
\* auth_method is "imap"; add_account of an "imap" account without a secret
\* returns False and leaves the store as it was, and the secret given with an
\* "oauth" add is not stored.
C21_SecretIffImap ==
    /\ [](\A i \in 1..Len(accounts) :
             HasSecret(accounts[i]) <=> accounts[i].auth_method = "imap")
    /\ [](\A i \in 1..Len(accounts) : HasSecret(accounts[i]) => accounts[i].app_password # "")
    /\ [][(call'.op = "add_account" /\ call'.auth_method = "imap"
               /\ call'.app_password = "") =>
              (~call'.ret /\ accounts' = accounts)]_vars

C21_Witness ==
    /\ call.op = "add_account" /\ call.auth_method = "oauth"
    /\ call.app_password = "pw" /\ call.ret
    /\ \E i, j \in 1..Len(accounts) :
          /\ accounts[i].email = call.email /\ ~HasSecret(accounts[i])
          /\ accounts[j].auth_method = "imap" /\ HasSecret(accounts[j])

\* C22 (as stated): setup_service raises ValueError for an address that is
\* not in the store, and for no other address; add_account of an "imap"
\* account without a secret raises ValueError to its caller.
C22_ConfigurationErrorsRaise ==
    /\ (call.op = "setup_service" /\ ~Registered(accounts, call.email)) =>
           call.exc = "ValueError"
    /\ (call.op = "setup_service" /\ call.exc = "ValueError") =>
           ~Registered(accounts, call.email)
    /\ (call.op = "add_account" /\ call.auth_method = "imap" /\ call.app_password = "") =>
           call.exc = "ValueError"
\* C23: export_to_excel called with zero records returns failure and writes
\* nothing: the directory is not made, no file appears at the output path and
\* a file already there keeps its rows.
C23_EmptyExportWritesNothing ==
    [][(export_pc = "ready" /\ export_pc' = "exported" /\ export_input = << >>) =>
          (~export_ok' /\ export_rows' = export_rows /\ export_dir' = export_dir)]_vars

C23_Witness ==
    /\ export_pc = "exported"
    /\ export_input = << >>
    /\ ~export_ok
    /\ export_rows # << >>
    /\ export_rows = export_prev

\* C24: the export path is a function of (address, start, end) that tells any
\* two exports apart: exports differing in address, start or end are written
\* to different paths, and the file of each is still the one it wrote.
C24_DistinctExportsDistinctPaths ==
    \A r1, r2 \in export_log :
        r1 # r2 =>
            /\ GetExportPath(r1.email, r1.start) # GetExportPath(r2.email, r2.start)
            /\ export_files[GetExportPath(r1.email, r1.start)] = r1

\* What a record says of its message: sent_at, local part, domain, subject.
Contents(records) ==
    [i \in 1..Len(records) |->
        [Date |-> records[i].Date, Username |-> records[i].Username,
         Domain |-> records[i].Domain, Subject |-> records[i].Subject]]

\* Both retrievals of the window returned and dropped no message.
TwoRunsDone == first_run.done /\ pc = "returned" /\ dropped = << >>

C26_PagingTerminates ==
    /\ Retrieval => <>(pc \in {"returned", "raised"})
    /\ [](Retrieval /\ pc = "returned" =>
             (results.messages = << >> \/ results.nextPageToken = None))

C26_Witness ==
    /\ Retrieval
    /\ pc = "returned"
    /\ Len(listCalls) >= 2
    /\ attempts >= 2
    /\ dropped # << >>
    /\ results.nextPageToken = None

AddFlows == {"cli_add_account", "AddAccountWorker_run"}

\* C27: the add flow is all or nothing: when add_account succeeded and the
\* session setup then failed, the store lists after the flow exactly the
\* addresses it listed before it; when the setup succeeded the new address
\* stays listed, whatever the fetch and the export do afterwards.
C27_AddFlowAllOrNothing ==
    [][(call'.op \in AddFlows /\ call' # call) =>
          /\ (~call'.ret /\ call'.exc # "none") =>
                 ListAccounts(accounts') = ListAccounts(accounts)
          /\ call'.ret => Registered(accounts', call'.email)]_vars

\* C28: EmailExportWorker.run leaves the tqdm class as it found it: once a
\* worker has run, with the fetch returning or raising, tqdm's __init__,
\* __call__ and __new__ are the ones the library defined.
C28_TqdmRestored ==
    fin # NoWorker => tqdm = TqdmClass

\* pbar.n: one update(1) per batch the generator has yielded.
ProgressCount == Len(batches)

\* The fetch of the CLI flow, after a probe that counted messages.
CliFetch == mode = "get_sent_emails_with_progress" /\ total_messages # 0

\* C29: in the CLI export flow against an unchanged mailbox the progress count
\* never exceeds the probed total, every batch yielded holds exactly one
\* record, and when the generator is exhausted the count is the total minus
\* the number of messages dropped.
C29_ProgressWithinTotal ==
    CliFetch =>
        /\ ProgressCount <= total_messages
        /\ \A i \in 1..Len(batches) : Len(batches[i]) = 1
        /\ Len(emails_data) = ProgressCount
        /\ pc = "returned" => ProgressCount = total_messages - Len(dropped)

C29_Witness ==
    /\ CliFetch
    /\ pc = "returned"
    /\ total_messages = 3
    /\ ProgressCount = 1
    /\ Len(dropped) = 2
    /\ Len(listCalls) >= 2

\* C30: add_account(a) and remove_account(a) keep every other account, also
\* when reading or writing the accounts file fails: each record stored before
\* the call under another address is stored after it; and a call that returns
\* True has persisted its change.
C30_OtherAccountsKept ==
    [][(call'.op \in {"add_account", "remove_account"}) =>
          /\ \A i \in 1..Len(accounts) :
                accounts[i].email # call'.email => accounts[i] \in Range(accounts')
          /\ (call'.op = "add_account" /\ call'.ret) => Registered(accounts', call'.email)
          /\ (call'.op = "remove_account" /\ call'.ret) =>
                ~Registered(accounts', call'.email)]_vars

====
